---- MODULE Spec2Model ----
(***************************************************************************)
(* Model of the MinerU extraction workflow of formulas_ocr:                *)
(* main.py upload_to_mineru (one request) together with                    *)
(* storage.py MinIOStorage.upload_file / _build_file_url.                  *)
(*                                                                         *)
(* One action per external interaction of the handler; everything the      *)
(* handler does between two interactions (including the return, the        *)
(* except clauses and the finally clause) belongs to the action of the     *)
(* interaction that precedes it.  File names are sequences of characters   *)
(* so that startswith / basename / splitext / "in" are computed as Python  *)
(* computes them.                                                          *)
(***************************************************************************)
EXTENDS Naturals, Sequences, FiniteSets, TLC

VARIABLES
    pc,              \* position of the handler
    file,            \* the UploadFile: filename, data, content_type
    store,           \* Blob Store bucket: object name -> [data, content_type]
    n_uuid,          \* number of uuid4() values drawn so far
    minio_file_url,  \* local of upload_to_mineru; <<>> is None
    temp_file_path,  \* local of upload_to_mineru; "None" is None
    temp_files,      \* temporary files that exist on disk
    data_id,         \* local; "None" before it is generated
    batch_id,        \* local; "None" before the slot response
    upload_url,      \* local; "None" before the slot response
    result,          \* local: the answer to the upload-slot request
    res_upload,      \* local: the PUT to the slot (url, data sent, status)
    attempt,         \* number of status queries issued by the poll loop
    final_state,     \* local of the poll loop
    final_err_msg,   \* local of the poll loop
    content_list,    \* local; "None" is None
    image_urls,      \* local: sequence of ImageInfo dicts
    result_data,     \* the last status response received
    zip_ref,         \* the opened archive: [open, filelist]
    file_idx,        \* position of the image loop in zip_ref.filelist
    outcome,         \* what the caller receives
    log,             \* the external calls issued so far, in order
    mongodb,         \* database.py:38, the MongoDB instance: [client, database]; 0 is None
    clients,         \* the AsyncIOMotorClient objects: how many were created, which are open
    collection,      \* what get_collection() returned last: [client, name]
    mongo_calls      \* the calls made on mongodb so far, in order

handlerVars ==
    <<pc, file, store, n_uuid, minio_file_url, temp_file_path, temp_files,
      data_id, batch_id, upload_url, result, res_upload, attempt, final_state, final_err_msg,
      content_list, image_urls, result_data, zip_ref, file_idx, outcome, log>>

mongoVars == <<mongodb, clients, collection, mongo_calls>>

vars == <<handlerVars, mongoVars>>

(***************************************************************************)
(* Bounds and program constants                                            *)
(***************************************************************************)
\* longest archive (number of entries) the remote service returns
MaxEntries == 2

\* main.py:191  max_retries = 30
max_retries == 30

\* longest sequence of calls made on the MongoDB instance
MaxCalls == 4

\* config.py:23
MONGODB_COLLECTION == "parser_list"

\* config.py:35,38,39
MINIO_ENDPOINT == "172.21.0.93:9000"
MINIO_BUCKET_NAME == "oct-parser"
MINIO_SECURE == FALSE

(***************************************************************************)
(* Strings as sequences of characters                                      *)
(***************************************************************************)
Max(S) == CHOOSE x \in S : \A y \in S : y <= x

\* str.rfind(c), 1-based; 0 when c does not occur
RFind(s, c) == Max({0} \cup {i \in 1..Len(s) : s[i] = c})

\* str.startswith(p)
StartsWith(s, p) == Len(s) >= Len(p) /\ SubSeq(s, 1, Len(p)) = p

\* p in s
Contains(s, p) ==
    \E i \in 1..(Len(s) + 1) :
        i + Len(p) - 1 <= Len(s) /\ SubSeq(s, i, i + Len(p) - 1) = p

\* os.path.basename(p)
Basename(p) == SubSeq(p, RFind(p, "/") + 1, Len(p))

\* os.path.splitext(p)[1]
SplitextExt(p) ==
    LET sep == RFind(p, "/")
        dot == RFind(p, ".")
    IN  IF dot > sep /\ \E i \in (sep + 1)..(dot - 1) : p[i] # "."
        THEN SubSeq(p, dot, Len(p))
        ELSE <<>>

\* str.lower() on the characters the model uses
LowerChar(c) ==
    CASE c = "P" -> "p"
      [] c = "N" -> "n"
      [] c = "G" -> "g"
      [] c = "J" -> "j"
      [] OTHER -> c

Lower(s) == [i \in 1..Len(s) |-> LowerChar(s[i])]

\* ZipInfo.is_dir()
is_dir(filename) == Len(filename) > 0 /\ filename[Len(filename)] = "/"

IMAGES_PREFIX == <<"i", "m", "a", "g", "e", "s", "/">>
LAYOUT_JSON == <<"l", "a", "y", "o", "u", "t", ".", "j", "s", "o", "n">>
DOT_PNG == <<".", "p", "n", "g">>
DOT_JPG == <<".", "j", "p", "g">>
DOT_JPEG == <<".", "j", "p", "e", "g">>
DOT_GIF == <<".", "g", "i", "f">>
DOT_BMP == <<".", "b", "m", "p">>
DOT_WEBP == <<".", "w", "e", "b", "p">>

(***************************************************************************)
(* storage.py                                                              *)
(***************************************************************************)
\* uuid.uuid4(): the n-th value drawn, one token that holds no "." and no "/"
Uuid4(n) ==
    IF n = 1 THEN "uuid-1"
    ELSE IF n = 2 THEN "uuid-2"
    ELSE IF n = 3 THEN "uuid-3"
    ELSE "uuid-4"

\* MinIOStorage._build_file_url
BuildFileUrl(object_name) ==
    <<IF MINIO_SECURE THEN "https" ELSE "http",
      MINIO_ENDPOINT, MINIO_BUCKET_NAME, object_name>>

\* mutant: use_original_name is ignored, every object gets a generated name
ObjectNameAlwaysGenerated(file_name, use_original_name, n) ==
    LET ext == IF Contains(file_name, <<".">>)
               THEN SubSeq(file_name, RFind(file_name, ".") + 1, Len(file_name))
               ELSE <<>>
    IN  IF ext # <<>> THEN <<Uuid4(n), ".">> \o ext ELSE <<Uuid4(n)>>

\* MinIOStorage.upload_file: the object name written
ObjectName(file_name, use_original_name, n) ==
    IF use_original_name
    THEN file_name
    ELSE LET ext == IF Contains(file_name, <<".">>)
                    THEN SubSeq(file_name, RFind(file_name, ".") + 1, Len(file_name))
                    ELSE <<>>
         IN  IF ext # <<>> THEN <<Uuid4(n), ".">> \o ext ELSE <<Uuid4(n)>>

\* client.put_object: the bucket after a successful write (an existing object is replaced)
PutObject(bucket, object_name, data, ctype) ==
    [o \in (DOMAIN bucket) \cup {object_name} |->
        IF o = object_name THEN [data |-> data, content_type |-> ctype] ELSE bucket[o]]

(***************************************************************************)
(* main.py: pieces of upload_to_mineru                                     *)
(***************************************************************************)
\* mutant: the extension is looked up without .lower()
ContentTypeOfCaseSensitive(image_name) ==
    LET ext == SplitextExt(image_name)
    IN  CASE ext = DOT_JPG -> "image/jpeg"
          [] ext = DOT_JPEG -> "image/jpeg"
          [] ext = DOT_PNG -> "image/png"
          [] ext = DOT_GIF -> "image/gif"
          [] ext = DOT_BMP -> "image/bmp"
          [] ext = DOT_WEBP -> "image/webp"
          [] OTHER -> "application/octet-stream"

\* content_type_map.get(ext, 'application/octet-stream')
ContentTypeOf(image_name) ==
    LET ext == Lower(SplitextExt(image_name))
    IN  CASE ext = DOT_JPG -> "image/jpeg"
          [] ext = DOT_JPEG -> "image/jpeg"
          [] ext = DOT_PNG -> "image/png"
          [] ext = DOT_GIF -> "image/gif"
          [] ext = DOT_BMP -> "image/bmp"
          [] ext = DOT_WEBP -> "image/webp"
          [] OTHER -> "application/octet-stream"

\* json.loads(json_file.read().decode('utf-8')); "RAISE" when the bytes are no JSON text
JsonLoads(data) ==
    CASE data = "bytes-1" -> "tree-1"
      [] data = "bytes-2" -> "tree-2"
      [] OTHER -> "RAISE"

\* mutant: the first loop has no `break`, the last matching entry wins
FindContentLast(filelist) ==
    LET hits == {i \in 1..Len(filelist) : Contains(filelist[i].filename, LAYOUT_JSON)}
    IN  IF hits = {}
        THEN "None"
        ELSE JsonLoads(filelist[CHOOSE i \in hits : \A j \in hits : i >= j].data)

\* the first loop over zip_ref.filelist: content_list afterwards
FindContent(filelist) ==
    LET hits == {i \in 1..Len(filelist) : Contains(filelist[i].filename, LAYOUT_JSON)}
    IN  IF hits = {}
        THEN "None"
        ELSE JsonLoads(filelist[CHOOSE i \in hits : \A j \in hits : i <= j].data)

\* the test of the second loop over zip_ref.filelist
IsImageEntry(file_info) ==
    StartsWith(file_info.filename, IMAGES_PREFIX) /\ ~is_dir(file_info.filename)

\* mutant: the second loop starts over after each upload
NextImageFromStart(filelist, from) ==
    LET rest == {i \in 1..Len(filelist) : IsImageEntry(filelist[i])}
    IN  IF rest = {} THEN 0 ELSE CHOOSE i \in rest : \A j \in rest : i <= j

\* the next entry at or after position `from` that the second loop uploads; 0 when none
NextImage(filelist, from) ==
    LET rest == {i \in from..Len(filelist) : IsImageEntry(filelist[i])}
    IN  IF rest = {} THEN 0 ELSE CHOOSE i \in rest : \A j \in rest : i <= j

\* mutant: image_urls.insert(0, {...})
AddImageInFront(urls, info) == <<info>> \o urls

\* image_urls.append({...})
AddImage(urls, info) == Append(urls, info)

\* mutant: range(max_retries + 1)
LoopContinuesOffByOne(done) == done <= max_retries

\* for attempt in range(max_retries): another iteration follows `done` iterations
LoopContinues(done) == done < max_retries

\* mutant: the `break` of the "done" branch is missing
LoopBreaksOnFailedOnly(state) == state = "failed"

\* mutant: the `break` of the "failed" branch is missing
LoopBreaksOnDoneOnly(state) == state = "done"

\* the two `break` statements of the poll loop
LoopBreaks(state) == state = "done" \/ state = "failed"

\* mutant: the status query is wrapped in try/except and the error swallowed
RaisesNever(resp) == FALSE

\* mutant: a response without extraction entries is raised as an error
RaisesOnNoEntry(resp) ==
    \/ resp.kind = "error"
    \/ (resp.kind = "json" /\ resp.code = 0 /\ resp.extract_result = <<>>)

\* requests.get(...) or result_response.raise_for_status() raises a RequestException
Raises(resp) == resp.kind = "error"

\* result_data["code"] == 0 and extract_results is truthy
HasEntry(resp) == resp.kind = "json" /\ resp.code = 0 /\ resp.extract_result # <<>>

\* mutant: extract_info.get("state", "done")
StateOfDefaultDone(extract_info) ==
    IF extract_info.state = "ABSENT" THEN "done" ELSE extract_info.state

\* extract_info.get("state", "unknown")
StateOf(extract_info) ==
    IF extract_info.state = "ABSENT" THEN "unknown" ELSE extract_info.state

\* extract_info.get("err_msg", "")
ErrMsgOf(extract_info) ==
    IF extract_info.err_msg = "ABSENT" THEN "" ELSE extract_info.err_msg

\* mutant: the archive reference is not tested before the download
ShouldDownloadWithoutUrl(extract_info) == StateOf(extract_info) = "done"

\* mutant: the download is started on any response that carries an archive reference
ShouldDownloadAnyState(extract_info) == extract_info.full_zip_url \notin {"ABSENT", ""}

\* final_state == "done" and extract_info.get("full_zip_url")
ShouldDownload(extract_info) ==
    /\ StateOf(extract_info) = "done"
    /\ extract_info.full_zip_url \notin {"ABSENT", ""}

\* mutant: the service's status code is not tested
SlotCodeAlwaysOk(resp) == TRUE

\* result["code"] == 0
SlotCodeOk(resp) == resp.code = 0

\* mutant: any HTTP answer to the PUT counts as success
PutAnswered(status) == status # "error"

\* res_upload.status_code == 200  (the else of main.py:183)
PutSucceeded(status) == status = "status_200"

\* mutant: the image loop catches the failed write and goes on with the next image
ImageFailureSkipped == FALSE

\* no try/except inside the image loop: a failed write leaves the loop and the handler
ImageFailureAborts == TRUE

\* raise HTTPException(status_code=500, detail=...) as the except clauses build it
HTTPError(detail) == [kind |-> "error", status_code |-> 500, detail |-> detail]

\* mutant: file_url=""
FileUrlEmpty(url) == <<>>

\* minio_file_url or ""   (None and "" are both the empty sequence here)
FileUrlOf(url) == url

\* mutant: file_url is built from the caller's file name
ExtractResultUrlFromFileName(state, err_msg, content, images) ==
    [kind |-> "result", code |-> 200,
     batch_id |-> batch_id, data_id |-> data_id,
     file_name |-> file.filename, file_url |-> BuildFileUrl(file.filename),
     state |-> state, err_msg |-> err_msg,
     content_list |-> content, image_urls |-> images]

\* ApiResponse[MinerUExtractResult](code=200, data=..., message="success")
ExtractResult(state, err_msg, content, images) ==
    [kind |-> "result", code |-> 200,
     batch_id |-> batch_id, data_id |-> data_id,
     file_name |-> file.filename, file_url |-> FileUrlOf(minio_file_url),
     state |-> state, err_msg |-> err_msg,
     content_list |-> content, image_urls |-> images]

\* the finally clause: the temporary files left on disk
Finally(path, files) == IF path # "None" /\ path \in files THEN files \ {path} ELSE files

(***************************************************************************)
(* Inputs                                                                  *)
(***************************************************************************)
FileNames == { <<"d", ".", "p", "d", "f">>, <<"d">> }

Files == [filename : FileNames, data : {"bytes-0"}, content_type : {"application/pdf"}]

SlotResponses ==
    {[kind |-> "error"]} \cup
    [kind : {"json"}, code : {0, 1}, batch_id : {"batch-1"},
     file_urls : {<<>>, <<"slot-1">>, <<"slot-1", "slot-2">>}]

ExtractInfos ==
    [state : {"running", "done", "failed", "ABSENT"},
     err_msg : {"ABSENT", "boom"},
     full_zip_url : {"ABSENT", "zip-url"}]

StatusResponses ==
    {[kind |-> "error"]} \cup
    [kind : {"json"}, code : {0, 1},
     extract_result : {<<>>} \cup {<<e>> : e \in ExtractInfos}]

ZipEntries ==
    { [filename |-> IMAGES_PREFIX \o <<"b">> \o DOT_PNG, data |-> "bytes-1"],
      [filename |-> IMAGES_PREFIX \o <<"a">> \o DOT_PNG, data |-> "bytes-2"],
      [filename |-> IMAGES_PREFIX, data |-> ""],
      [filename |-> LAYOUT_JSON, data |-> "bytes-1"],
      [filename |-> <<"x", "/">> \o LAYOUT_JSON, data |-> "bytes-3"],
      [filename |-> <<"a">> \o DOT_PNG, data |-> "bytes-1"] }

Archives == UNION {[1..n -> ZipEntries] : n \in 0..MaxEntries}

ZipResponses ==
    {[kind |-> "error"], [kind |-> "bad_zip"]} \cup
    [kind : {"zip"}, filelist : Archives]

\* a wider choice of archive entries: every extension of content_type_map, an upper-case
\* one, an unknown one, none, a dot file, a nested image with the basename of another,
\* three content files, an image whose name holds a character reserved in URLs
WideZipEntries ==
    ZipEntries \cup
    { [filename |-> IMAGES_PREFIX \o <<"s", "/", "a">> \o DOT_PNG, data |-> "bytes-3"],
      [filename |-> <<"y", "/">> \o LAYOUT_JSON, data |-> "bytes-2"],
      [filename |-> IMAGES_PREFIX \o <<"c">> \o DOT_JPG, data |-> "bytes-1"],
      [filename |-> IMAGES_PREFIX \o <<"c">> \o DOT_JPEG, data |-> "bytes-1"],
      [filename |-> IMAGES_PREFIX \o <<"c">> \o DOT_GIF, data |-> "bytes-1"],
      [filename |-> IMAGES_PREFIX \o <<"c">> \o DOT_BMP, data |-> "bytes-1"],
      [filename |-> IMAGES_PREFIX \o <<"c">> \o DOT_WEBP, data |-> "bytes-1"],
      [filename |-> IMAGES_PREFIX \o <<"c", ".", "P", "N", "G">>, data |-> "bytes-1"],
      [filename |-> IMAGES_PREFIX \o <<"c", ".", "t", "i", "f">>, data |-> "bytes-1"],
      [filename |-> IMAGES_PREFIX \o <<"c">>, data |-> "bytes-1"],
      [filename |-> IMAGES_PREFIX \o DOT_PNG, data |-> "bytes-1"],
      [filename |-> IMAGES_PREFIX \o <<"c", "#">> \o DOT_PNG, data |-> "bytes-2"] }

WideArchives == UNION {[1..n -> WideZipEntries] : n \in 0..MaxEntries}

WideZipResponses ==
    {[kind |-> "error"], [kind |-> "bad_zip"]} \cup
    [kind : {"zip"}, filelist : WideArchives]

(***************************************************************************)
(* The handler                                                             *)
(***************************************************************************)
\* main.py:38-41: the MongoDB instance once startup_db_client has called connect()
MongoStarted ==
    /\ mongodb = [client |-> 1, database |-> 1]
    /\ clients = [created |-> 1, open |-> {1}]
    /\ collection = [client |-> 0, name |-> "None"]
    /\ mongo_calls = <<"connect">>

Init ==
    /\ pc = "upload_original"
    /\ file \in Files
    /\ MongoStarted
    /\ store = <<>>
    /\ n_uuid = 0
    /\ minio_file_url = <<>>
    /\ temp_file_path = "None"
    /\ temp_files = {}
    /\ data_id = "None"
    /\ batch_id = "None"
    /\ upload_url = "None"
    /\ result = [kind |-> "none"]
    /\ res_upload = [kind |-> "none"]
    /\ attempt = 0
    /\ final_state = "None"
    /\ final_err_msg = "None"
    /\ content_list = "None"
    /\ image_urls = <<>>
    /\ result_data = [kind |-> "none"]
    /\ zip_ref = [open |-> FALSE, filelist |-> <<>>]
    /\ file_idx = 0
    /\ outcome = [kind |-> "none"]
    /\ log = <<>>

pollVars == <<attempt, final_state, final_err_msg, result_data>>
zipVars == <<content_list, image_urls, zip_ref, file_idx>>
slotVars == <<data_id, batch_id, upload_url, result, res_upload>>

\* the handler ends: return or raise, then the finally clause
Terminate(out) ==
    /\ outcome' = out
    /\ pc' = "done"
    /\ temp_files' = Finally(temp_file_path, temp_files)
    /\ UNCHANGED temp_file_path

\* main.py:126-135: read the file, MinIOStorage.upload_file (generated name)
UploadOriginal ==
    /\ pc = "upload_original"
    /\ log' = Append(log, "blob_put_document")
    /\ \E ok \in BOOLEAN :
        IF ok
        THEN LET object_name == ObjectName(file.filename, FALSE, n_uuid + 1)
             IN  /\ n_uuid' = n_uuid + 1
                 /\ store' = PutObject(store, object_name, file.data, file.content_type)
                 /\ minio_file_url' = BuildFileUrl(object_name)
                 /\ pc' = "save_temp"
                 /\ UNCHANGED <<outcome, temp_files, temp_file_path>>
        ELSE /\ Terminate(HTTPError("upload_failed"))
             /\ UNCHANGED <<n_uuid, store, minio_file_url>>
    /\ UNCHANGED <<mongoVars, file, slotVars, pollVars, zipVars>>

\* main.py:138-140: NamedTemporaryFile(delete=False), write, temp_file_path = name
SaveTemp ==
    /\ pc = "save_temp"
    /\ \E how \in {"create_fails", "write_fails", "ok"} :
        CASE how = "create_fails" ->
                /\ Terminate(HTTPError("upload_failed"))
           [] how = "write_fails" ->
                \* the file exists, temp_file_path is still None in the finally clause
                /\ outcome' = HTTPError("upload_failed")
                /\ pc' = "done"
                /\ temp_files' = Finally(temp_file_path, temp_files \cup {"tmp-1"})
                /\ UNCHANGED temp_file_path
           [] how = "ok" ->
                /\ temp_files' = temp_files \cup {"tmp-1"}
                /\ temp_file_path' = "tmp-1"
                /\ pc' = "request_slot"
                /\ UNCHANGED outcome
    /\ UNCHANGED <<mongoVars, file, store, n_uuid, minio_file_url, slotVars, pollVars, zipVars, log>>

\* main.py:143-174: data_id, POST /file-urls/batch, the checks on its answer
RequestSlot ==
    /\ pc = "request_slot"
    /\ n_uuid' = n_uuid + 1
    /\ data_id' = Uuid4(n_uuid + 1)
    /\ log' = Append(log, "slot_request")
    /\ \E resp \in SlotResponses :
        /\ result' = resp
        /\ IF resp.kind = "error"
           THEN /\ Terminate(HTTPError("request_failed"))
                /\ UNCHANGED <<batch_id, upload_url>>
           ELSE IF ~SlotCodeOk(resp)
           THEN /\ Terminate(HTTPError("upload_failed"))
                /\ UNCHANGED <<batch_id, upload_url>>
           ELSE IF resp.file_urls = <<>>
           THEN /\ Terminate(HTTPError("upload_failed"))
                /\ batch_id' = resp.batch_id
                /\ UNCHANGED upload_url
           ELSE /\ batch_id' = resp.batch_id
                /\ upload_url' = resp.file_urls[1]
                /\ pc' = "put_file"
                /\ UNCHANGED <<outcome, temp_files, temp_file_path>>
    /\ UNCHANGED <<mongoVars, file, store, minio_file_url, res_upload, pollVars, zipVars>>

\* main.py:176-196: PUT the temporary file to the slot, then the loop's locals
PutFile ==
    /\ pc = "put_file"
    /\ log' = Append(log, "slot_put")
    /\ \E res \in {"error", "status_200", "status_403"} :
        /\ res_upload' = [kind |-> "put", url |-> upload_url, data |-> file.data,
                          status |-> res]
        /\ IF PutSucceeded(res)
           THEN /\ pc' = "poll"
                /\ final_state' = "processing"
                /\ final_err_msg' = ""
                /\ UNCHANGED <<outcome, temp_files, temp_file_path>>
           ELSE /\ Terminate(HTTPError(IF res = "error" THEN "request_failed"
                                                         ELSE "upload_failed"))
                /\ UNCHANGED <<final_state, final_err_msg>>
    /\ UNCHANGED <<mongoVars, file, store, n_uuid, minio_file_url, data_id, batch_id, upload_url,
                   result, attempt, result_data, zipVars>>

\* main.py:280-293: the return after the loop
Return(state, err_msg, content, images) ==
    Terminate(ExtractResult(state, err_msg, content, images))

\* main.py:274-279 and the loop header: after an iteration that did not raise
EndIteration(breaks, done, state, err_msg, content, images) ==
    IF breaks \/ ~LoopContinues(done)
    THEN Return(state, err_msg, content, images)
    ELSE /\ pc' = "poll"
         /\ UNCHANGED <<outcome, temp_files, temp_file_path>>

\* main.py:198-219, 274-278: one iteration of the poll loop up to the download
Poll ==
    /\ pc = "poll"
    /\ LoopContinues(attempt)
    /\ attempt' = attempt + 1
    /\ log' = Append(log, "status_query")
    /\ \E resp \in StatusResponses :
        /\ result_data' = resp
        /\ IF Raises(resp)
           THEN /\ Terminate(HTTPError("request_failed"))
                /\ UNCHANGED <<final_state, final_err_msg>>
           ELSE IF ~HasEntry(resp)
           THEN /\ UNCHANGED <<final_state, final_err_msg>>
                /\ EndIteration(FALSE, attempt + 1, final_state, final_err_msg,
                                content_list, image_urls)
           ELSE LET extract_info == resp.extract_result[1]
                IN  /\ final_state' = StateOf(extract_info)
                    /\ final_err_msg' = ErrMsgOf(extract_info)
                    /\ IF ShouldDownload(extract_info)
                       THEN /\ pc' = "download"
                            /\ UNCHANGED <<outcome, temp_files, temp_file_path>>
                       ELSE EndIteration(LoopBreaks(StateOf(extract_info)), attempt + 1,
                                         StateOf(extract_info), ErrMsgOf(extract_info),
                                         content_list, image_urls)
    /\ UNCHANGED <<mongoVars, file, store, n_uuid, minio_file_url, slotVars, zipVars>>

\* main.py:222-240: GET the archive, open it, read the content file
DownloadFrom(responses) ==
    /\ pc = "download"
    /\ log' = Append(log, "zip_get")
    /\ \E zr \in responses :
        IF zr.kind = "error"
        THEN /\ Terminate(HTTPError("request_failed"))
             /\ UNCHANGED zipVars
        ELSE IF zr.kind = "bad_zip"
        THEN /\ Terminate(HTTPError("upload_failed"))
             /\ UNCHANGED zipVars
        ELSE IF FindContent(zr.filelist) = "RAISE"
        THEN /\ Terminate(HTTPError("upload_failed"))
             /\ zip_ref' = [open |-> TRUE, filelist |-> zr.filelist]
             /\ UNCHANGED <<content_list, image_urls, file_idx>>
        ELSE /\ zip_ref' = [open |-> TRUE, filelist |-> zr.filelist]
             /\ content_list' = FindContent(zr.filelist)
             /\ image_urls' = <<>>
             /\ file_idx' = NextImage(zr.filelist, 1)
             /\ IF NextImage(zr.filelist, 1) = 0
                THEN EndIteration(LoopBreaks(final_state), attempt, final_state,
                                  final_err_msg, FindContent(zr.filelist), <<>>)
                ELSE /\ pc' = "upload_image"
                     /\ UNCHANGED <<outcome, temp_files, temp_file_path>>
    /\ UNCHANGED <<mongoVars, file, store, n_uuid, minio_file_url, slotVars, pollVars>>

Download == DownloadFrom(ZipResponses)

\* main.py:241-274: the next image of the archive: read it, upload_file under its own name
UploadImage ==
    /\ pc = "upload_image"
    /\ log' = Append(log, "blob_put_image")
    /\ LET file_info == zip_ref.filelist[file_idx]
           image_name == Basename(file_info.filename)
           object_name == ObjectName(image_name, TRUE, n_uuid)
       IN  \E ok \in BOOLEAN :
            IF ok
            THEN /\ store' = PutObject(store, object_name, file_info.data,
                                       ContentTypeOf(image_name))
                 /\ image_urls' = AddImage(image_urls,
                                     [name |-> image_name,
                                      path |-> file_info.filename,
                                      url |-> BuildFileUrl(object_name)])
                 /\ file_idx' = NextImage(zip_ref.filelist, file_idx + 1)
                 /\ IF NextImage(zip_ref.filelist, file_idx + 1) = 0
                    THEN EndIteration(LoopBreaks(final_state), attempt, final_state,
                                      final_err_msg, content_list, image_urls')
                    ELSE /\ pc' = "upload_image"
                         /\ UNCHANGED <<outcome, temp_files, temp_file_path>>
            ELSE IF ImageFailureAborts
            THEN /\ Terminate(HTTPError("upload_failed"))
                 /\ UNCHANGED <<store, image_urls, file_idx>>
            ELSE /\ file_idx' = NextImage(zip_ref.filelist, file_idx + 1)
                 /\ UNCHANGED <<store, image_urls>>
                 /\ IF NextImage(zip_ref.filelist, file_idx + 1) = 0
                    THEN EndIteration(LoopBreaks(final_state), attempt, final_state,
                                      final_err_msg, content_list, image_urls)
                    ELSE /\ pc' = "upload_image"
                         /\ UNCHANGED <<outcome, temp_files, temp_file_path>>
    /\ UNCHANGED <<mongoVars, file, n_uuid, minio_file_url, slotVars, pollVars, content_list, zip_ref>>

Next ==
    \/ UploadOriginal
    \/ SaveTemp
    \/ RequestSlot
    \/ PutFile
    \/ Poll
    \/ Download
    \/ UploadImage

Spec == Init /\ [][Next]_vars

(***************************************************************************)
(* A second request, served after a first one has ended: the bucket holds  *)
(* what the first request wrote (its document and the image of the entry   *)
(* images/s/a.png of its archive) and the first request has drawn two      *)
(* uuid4() values.                                                         *)
(***************************************************************************)
FirstRequestStore ==
    PutObject(
        PutObject(<<>>, ObjectName(<<"d", ".", "p", "d", "f">>, FALSE, 1),
                  "bytes-0", "application/pdf"),
        ObjectName(Basename(IMAGES_PREFIX \o <<"s", "/", "a">> \o DOT_PNG), TRUE, 2),
        "bytes-3", ContentTypeOf(<<"a">> \o DOT_PNG))

InitSecond ==
    /\ pc = "upload_original"
    /\ file \in Files
    /\ MongoStarted
    /\ store = FirstRequestStore
    /\ n_uuid = 2
    /\ minio_file_url = <<>>
    /\ temp_file_path = "None"
    /\ temp_files = {}
    /\ data_id = "None"
    /\ batch_id = "None"
    /\ upload_url = "None"
    /\ result = [kind |-> "none"]
    /\ res_upload = [kind |-> "none"]
    /\ attempt = 0
    /\ final_state = "None"
    /\ final_err_msg = "None"
    /\ content_list = "None"
    /\ image_urls = <<>>
    /\ result_data = [kind |-> "none"]
    /\ zip_ref = [open |-> FALSE, filelist |-> <<>>]
    /\ file_idx = 0
    /\ outcome = [kind |-> "none"]
    /\ log = <<>>

SpecSecond == InitSecond /\ [][Next]_vars

(***************************************************************************)
(* The archive phase alone, over the wider archives.  It starts in the     *)
(* state the handler is in when the first status response reported done    *)
(* with an archive reference.                                              *)
(***************************************************************************)
InitArchive ==
    /\ pc = "download"
    /\ file \in Files
    /\ MongoStarted
    /\ store = PutObject(<<>>, ObjectName(file.filename, FALSE, 1), file.data,
                         file.content_type)
    /\ n_uuid = 2
    /\ minio_file_url = BuildFileUrl(ObjectName(file.filename, FALSE, 1))
    /\ temp_file_path = "tmp-1"
    /\ temp_files = {"tmp-1"}
    /\ data_id = Uuid4(2)
    /\ batch_id = "batch-1"
    /\ upload_url = "slot-1"
    /\ result = [kind |-> "json", code |-> 0, batch_id |-> "batch-1",
                 file_urls |-> <<"slot-1">>]
    /\ res_upload = [kind |-> "put", url |-> "slot-1", data |-> file.data,
                     status |-> "status_200"]
    /\ attempt = 1
    /\ final_state = "done"
    /\ final_err_msg = ""
    /\ content_list = "None"
    /\ image_urls = <<>>
    /\ result_data = [kind |-> "json", code |-> 0,
                      extract_result |-> <<[state |-> "done", err_msg |-> "ABSENT",
                                            full_zip_url |-> "zip-url"]>>]
    /\ zip_ref = [open |-> FALSE, filelist |-> <<>>]
    /\ file_idx = 0
    /\ outcome = [kind |-> "none"]
    /\ log = <<"blob_put_document", "slot_request", "slot_put", "status_query">>

DownloadWide == DownloadFrom(WideZipResponses)

NextArchive ==
    \/ DownloadWide
    \/ UploadImage

SpecArchive == InitArchive /\ [][NextArchive]_vars

(***************************************************************************)
(* database.py: the MongoDB connection manager, under any sequence of at   *)
(* most MaxCalls calls; no request is being handled.                       *)
(***************************************************************************)
\* MongoDB.connect applied to the fields `m`, with the clients `c`
MongoConnect(m, c) ==
    IF m.client = 0
    THEN [mongodb |-> [client |-> c.created + 1, database |-> c.created + 1],
          clients |-> [created |-> c.created + 1, open |-> c.open \cup {c.created + 1}]]
    ELSE [mongodb |-> m, clients |-> c]

\* MongoDB.close applied to the fields `m`, with the clients `c`
MongoClose(m, c) ==
    IF m.client # 0
    THEN [mongodb |-> [client |-> 0, database |-> m.database],
          clients |-> [created |-> c.created, open |-> c.open \ {m.client}]]
    ELSE [mongodb |-> m, clients |-> c]

InitMongo ==
    /\ pc = "upload_original"
    /\ file \in Files
    /\ store = <<>>
    /\ n_uuid = 0
    /\ minio_file_url = <<>>
    /\ temp_file_path = "None"
    /\ temp_files = {}
    /\ data_id = "None"
    /\ batch_id = "None"
    /\ upload_url = "None"
    /\ result = [kind |-> "none"]
    /\ res_upload = [kind |-> "none"]
    /\ attempt = 0
    /\ final_state = "None"
    /\ final_err_msg = "None"
    /\ content_list = "None"
    /\ image_urls = <<>>
    /\ result_data = [kind |-> "none"]
    /\ zip_ref = [open |-> FALSE, filelist |-> <<>>]
    /\ file_idx = 0
    /\ outcome = [kind |-> "none"]
    /\ log = <<>>
    /\ mongodb = [client |-> 0, database |-> 0]
    /\ clients = [created |-> 0, open |-> {}]
    /\ collection = [client |-> 0, name |-> "None"]
    /\ mongo_calls = <<>>

connect ==
    /\ Len(mongo_calls) < MaxCalls
    /\ mongo_calls' = Append(mongo_calls, "connect")
    /\ mongodb' = MongoConnect(mongodb, clients).mongodb
    /\ clients' = MongoConnect(mongodb, clients).clients
    /\ UNCHANGED <<collection, handlerVars>>

close ==
    /\ Len(mongo_calls) < MaxCalls
    /\ mongo_calls' = Append(mongo_calls, "close")
    /\ mongodb' = MongoClose(mongodb, clients).mongodb
    /\ clients' = MongoClose(mongodb, clients).clients
    /\ UNCHANGED <<collection, handlerVars>>

get_collection ==
    /\ Len(mongo_calls) < MaxCalls
    /\ mongo_calls' = Append(mongo_calls, "get_collection")
    /\ \E collection_name \in {"None", "other"} :
        LET after == IF mongodb.database = 0
                     THEN MongoConnect(mongodb, clients)
                     ELSE [mongodb |-> mongodb, clients |-> clients]
            name == IF collection_name = "None" THEN MONGODB_COLLECTION
                    ELSE collection_name
        IN  /\ mongodb' = after.mongodb
            /\ clients' = after.clients
            /\ collection' = [client |-> after.mongodb.database, name |-> name]
    /\ UNCHANGED handlerVars

NextMongo ==
    \/ connect
    \/ close
    \/ get_collection

SpecMongo == InitMongo /\ [][NextMongo]_vars

(***************************************************************************)
(* Vocabulary of the properties                                            *)
(***************************************************************************)
\* how many times the external call `op` has been issued
Count(op) == Cardinality({i \in 1..Len(log) : log[i] = op})

\* the response is a well-formed status answer whose first entry has state `st`
Reported(resp, st) ==
    /\ resp.kind = "json"
    /\ resp.code = 0
    /\ resp.extract_result # <<>>
    /\ resp.extract_result[1].state = st

ReportedTerminal(resp) == Reported(resp, "done") \/ Reported(resp, "failed")

\* the first entry of the response carries a downloadable archive reference
HasArchiveRef(resp) ==
    /\ resp.kind = "json"
    /\ resp.extract_result # <<>>
    /\ resp.extract_result[1].full_zip_url = "zip-url"

\* a result was returned after max_retries responses none of which was terminal
Exhausted ==
    /\ pc = "done"
    /\ outcome.kind = "result"
    /\ Count("status_query") = max_retries
    /\ ~ReportedTerminal(result_data)

(***************************************************************************)
(* C1: the poll loop issues at most max_retries (30) status queries, the   *)
(* loop is over once the 30th has been answered (the handler is then past  *)
(* polling and can only proceed to its end), the handler is never stuck    *)
(* before its end, and no status query follows a response that reported    *)
(* done or failed.                                                         *)
(***************************************************************************)
C1_PollBounded ==
    /\ [](/\ Count("status_query") <= max_retries
          /\ attempt = Count("status_query")
          /\ (Count("status_query") = max_retries => pc # "poll")
          /\ (pc = "done" \/ ENABLED Next)
          /\ (pc = "done" <=> outcome.kind \in {"result", "error"}))
    /\ [][ReportedTerminal(result_data)
            => Count("status_query")' = Count("status_query")]_vars

C1_Witness ==
    /\ pc = "done"
    /\ outcome.kind = "result"
    /\ Count("status_query") = max_retries

(***************************************************************************)
(* C2 (as stated): when all 30 responses leave the job non-terminal the    *)
(* result has state TimedOut, null content, no images, and no download     *)
(* was attempted.                                                          *)
(***************************************************************************)
C2_TimedOutState ==
    Exhausted =>
        /\ outcome.state = "TimedOut"
        /\ outcome.content_list = "None"
        /\ outcome.image_urls = <<>>
        /\ Count("zip_get") = 0

(***************************************************************************)
(* C2 (amended): when all 30 responses leave the job non-terminal the      *)
(* result carries the last state the service reported ("processing" or     *)
(* another non-terminal string, "unknown" when the entry had no state),    *)
(* never TimedOut; content is null, images are empty and no download was   *)
(* attempted.                                                              *)
(***************************************************************************)
C2_ExhaustedResult ==
    Exhausted =>
        /\ outcome.state \notin {"done", "failed", "TimedOut"}
        /\ (result_data.code = 0 /\ result_data.extract_result # <<>>) =>
              outcome.state = (IF result_data.extract_result[1].state = "ABSENT"
                               THEN "unknown"
                               ELSE result_data.extract_result[1].state)
        /\ outcome.content_list = "None"
        /\ outcome.image_urls = <<>>
        /\ Count("zip_get") = 0

C2_Witness == Exhausted /\ outcome.state = "processing"

(***************************************************************************)
(* C3 (as stated): a result has state done only when the status response   *)
(* reported completion and carried an archive reference.                   *)
(***************************************************************************)
C3_DoneNeedsArchive ==
    (outcome.kind = "result" /\ outcome.state = "done") =>
        (Reported(result_data, "done") /\ HasArchiveRef(result_data))

(***************************************************************************)
(* C3 (amended): a result has state done only when the last status         *)
(* response reported completion, with or without an archive reference;     *)
(* the archive is downloaded only when the reference is present, and a     *)
(* completion without one yields a done result with null content and no    *)
(* images.                                                                 *)
(***************************************************************************)
C3_DoneIffReported ==
    /\ (outcome.kind = "result" /\ outcome.state = "done")
          => Reported(result_data, "done")
    /\ Count("zip_get") > 0
          => (Reported(result_data, "done") /\ HasArchiveRef(result_data))
    /\ (Reported(result_data, "done") /\ ~HasArchiveRef(result_data)) =>
          /\ pc = "done"
          /\ outcome.kind = "result"
          /\ outcome.state = "done"
          /\ outcome.content_list = "None"
          /\ outcome.image_urls = <<>>

C3_Witness ==
    /\ outcome.kind = "result"
    /\ outcome.state = "done"
    /\ ~HasArchiveRef(result_data)

(***************************************************************************)
(* C4: in every returned result content_list is null and image_urls is     *)
(* empty unless the state is done, whatever the status responses were.     *)
(***************************************************************************)
C4_ContentOnlyWhenDone ==
    (outcome.kind = "result" /\ outcome.state # "done") =>
        (outcome.content_list = "None" /\ outcome.image_urls = <<>>)

C4_Witness ==
    /\ outcome.kind = "result"
    /\ outcome.state = "unknown"
    /\ Count("status_query") > 1

(***************************************************************************)
(* C5 (as stated): a transport-level error on one status query does not    *)
(* abort the poll loop; an error is raised only once the attempt cap has   *)
(* been reached.                                                           *)
(***************************************************************************)
C5_ErrorOnlyAtCap ==
    (result_data.kind = "error" /\ outcome.kind = "error")
        => Count("status_query") = max_retries

(***************************************************************************)
(* C5 (amended): a transport-level error on one status query aborts the    *)
(* poll loop at once, on whichever attempt it occurs: the request ends     *)
(* with an HTTP 500 error and no further status query, download or image   *)
(* relocation is issued.                                                   *)
(***************************************************************************)
C5_ErrorAbortsLoop ==
    result_data.kind = "error" =>
        /\ pc = "done"
        /\ outcome = [kind |-> "error", status_code |-> 500, detail |-> "request_failed"]
        /\ log[Len(log)] = "status_query"
        /\ Count("zip_get") = 0

C5_Witness ==
    /\ result_data.kind = "error"
    /\ pc = "done"
    /\ Count("status_query") > 1
    /\ Count("status_query") < max_retries

(***************************************************************************)
(* C6: a response reporting failed on attempt k stops the polling at       *)
(* attempt k; no archive download and no image relocation is performed     *)
(* and a result with state failed and the error message of that response   *)
(* is returned.                                                            *)
(***************************************************************************)
C6_FailedStopsPolling ==
    Reported(result_data, "failed") =>
        /\ pc = "done"
        /\ log[Len(log)] = "status_query"
        /\ Count("zip_get") = 0
        /\ Count("blob_put_image") = 0
        /\ outcome.kind = "result"
        /\ outcome.state = "failed"
        /\ outcome.err_msg = (IF result_data.extract_result[1].err_msg = "ABSENT"
                              THEN ""
                              ELSE result_data.extract_result[1].err_msg)
        /\ outcome.content_list = "None"
        /\ outcome.image_urls = <<>>

C6_Witness ==
    /\ Reported(result_data, "failed")
    /\ pc = "done"
    /\ outcome.err_msg = "boom"
    /\ Count("status_query") > 1
    /\ Count("status_query") < max_retries

\* the job ended failed, or the poll loop ran out of attempts without a terminal state
EndedFailedOrTimedOut ==
    /\ pc = "done"
    /\ \/ Reported(result_data, "failed")
       \/ /\ Count("status_query") = max_retries
          /\ result_data.kind = "json"
          /\ ~ReportedTerminal(result_data)

\* the URL under which the Blob Store holds the original document of this request
DocumentUrlStored(url) ==
    /\ Len(url) = 4
    /\ url[4] \in DOMAIN store
    /\ store[url[4]].data = file.data
    /\ url[4] # file.filename
    /\ url = minio_file_url

(***************************************************************************)
(* C7 (as stated): when the job ends failed or timed out the caller gets   *)
(* a result object (no exception) with the relocated document's URL and a  *)
(* non-empty error message.                                                *)
(***************************************************************************)
C7_ErrorMessagePresent ==
    EndedFailedOrTimedOut =>
        /\ outcome.kind = "result"
        /\ DocumentUrlStored(outcome.file_url)
        /\ outcome.err_msg # ""

(***************************************************************************)
(* C7 (amended): when the job ends failed or timed out the caller gets a   *)
(* result object (no exception) with the relocated document's URL; its     *)
(* error message is the err_msg of the last status entry received, which   *)
(* is the empty string when the service sent none.                         *)
(***************************************************************************)
C7_FailedResultShape ==
    EndedFailedOrTimedOut =>
        /\ outcome.kind = "result"
        /\ DocumentUrlStored(outcome.file_url)
        /\ outcome.err_msg \in {"", "boom"}
        /\ (result_data.code = 0 /\ result_data.extract_result # <<>>) =>
              outcome.err_msg = (IF result_data.extract_result[1].err_msg = "ABSENT"
                                 THEN ""
                                 ELSE result_data.extract_result[1].err_msg)

C7_Witness ==
    /\ EndedFailedOrTimedOut
    /\ Reported(result_data, "failed")
    /\ outcome.err_msg = ""

(***************************************************************************)
(* C8 (as stated): once the original document has been relocated, the      *)
(* outcome delivered to the caller carries the document URL however the    *)
(* later steps end.                                                        *)
(***************************************************************************)
C8_UrlInEveryOutcome ==
    (pc = "done" /\ minio_file_url # <<>>) =>
        /\ "file_url" \in DOMAIN outcome
        /\ outcome.file_url = minio_file_url

(***************************************************************************)
(* C8 (amended): once the original document has been relocated, every      *)
(* returned result carries the document URL, whatever state the job        *)
(* ended in; when a later step raises, the document stays in the Blob      *)
(* Store but the caller receives an HTTP 500 error that holds only a       *)
(* status code and a detail text, not the URL.                             *)
(***************************************************************************)
C8_UrlOnlyInResult ==
    (pc = "done" /\ minio_file_url # <<>>) =>
        /\ minio_file_url[4] \in DOMAIN store
        /\ outcome.kind = "result" => DocumentUrlStored(outcome.file_url)
        /\ outcome.kind # "result" =>
              /\ outcome.kind = "error"
              /\ DOMAIN outcome = {"kind", "status_code", "detail"}
              /\ outcome.status_code = 500

C8_Witness ==
    /\ pc = "done"
    /\ minio_file_url # <<>>
    /\ outcome.kind = "error"
    /\ Count("blob_put_image") > 0

\* the position of an external call in the order the handler issues them
Rank(op) ==
    CASE op = "blob_put_document" -> 1
      [] op = "slot_request" -> 2
      [] op = "slot_put" -> 3
      [] op = "status_query" -> 4
      [] op = "zip_get" -> 5
      [] op = "blob_put_image" -> 6

(***************************************************************************)
(* C9: the external calls of one request occur in a fixed order: Blob      *)
(* Store write of the document, upload-slot request, PUT to the slot,      *)
(* status queries, archive download, image relocations.  Each call is      *)
(* preceded by the calls before it in that order, the archive download     *)
(* follows a status response reporting done, and no status query follows   *)
(* the download.                                                           *)
(***************************************************************************)
C9_CallOrder ==
    /\ \A i, j \in 1..Len(log) : i < j => Rank(log[i]) <= Rank(log[j])
    /\ Count("slot_request") > 0 => Count("blob_put_document") > 0
    /\ Count("slot_put") > 0 => Count("slot_request") > 0
    /\ Count("status_query") > 0 => Count("slot_put") > 0
    /\ Count("zip_get") > 0 =>
          (Count("status_query") > 0 /\ Reported(result_data, "done"))
    /\ Count("blob_put_image") > 0 => Count("zip_get") > 0

C9_Witness ==
    /\ pc = "done"
    /\ Count("status_query") > 1
    /\ Count("zip_get") > 0
    /\ Count("blob_put_image") > 1

\* the archive entry lies under the images directory and is no directory entry
C10_IsImage(entry) ==
    /\ Len(entry.filename) > Len(IMAGES_PREFIX)
    /\ SubSeq(entry.filename, 1, Len(IMAGES_PREFIX)) = IMAGES_PREFIX
    /\ entry.filename[Len(entry.filename)] # "/"

\* the image entries of the opened archive, in enumeration order
C10_ImageEntries == SelectSeq(zip_ref.filelist, C10_IsImage)

(***************************************************************************)
(* C10: the images sequence of a result built from an archive holds        *)
(* exactly one ImageAsset per non-directory entry under the images         *)
(* directory, in the archive's enumeration order; an archive with no such  *)
(* entry (and no unparsable content file) gives an empty images sequence   *)
(* and a result with state done, not an error.                             *)
(***************************************************************************)
C10_ImagesInArchiveOrder ==
    /\ (pc = "done" /\ outcome.kind = "result" /\ zip_ref.open) =>
          /\ Len(outcome.image_urls) = Len(C10_ImageEntries)
          /\ \A k \in 1..Len(C10_ImageEntries) :
                /\ outcome.image_urls[k].path = C10_ImageEntries[k].filename
                /\ outcome.image_urls[k].url[4] \in DOMAIN store
    /\ (pc = "done" /\ zip_ref.open /\ C10_ImageEntries = <<>>
          /\ FindContent(zip_ref.filelist) # "RAISE") =>
          /\ outcome.kind = "result"
          /\ outcome.state = "done"
          /\ outcome.image_urls = <<>>

C10_Witness ==
    /\ pc = "done"
    /\ outcome.kind = "result"
    /\ Len(outcome.image_urls) = 2
    /\ outcome.image_urls[1].path = IMAGES_PREFIX \o <<"b">> \o DOT_PNG
    /\ outcome.image_urls[2].path = IMAGES_PREFIX \o <<"a">> \o DOT_PNG

C10_WitnessEmpty ==
    /\ pc = "done"
    /\ zip_ref.open
    /\ Len(zip_ref.filelist) > 0
    /\ C10_ImageEntries = <<>>
    /\ outcome.kind = "result"

\* the part of an archive path after its last "/"
PathBasename(path) ==
    LET cut == CHOOSE i \in 0..Len(path) :
                  /\ i = 0 \/ path[i] = "/"
                  /\ \A j \in (i + 1)..Len(path) : path[j] # "/"
    IN  SubSeq(path, cut + 1, Len(path))

\* the object names the Blob Store holds for the images relocated so far
ImageObjectNames == {PathBasename(image_urls[k].path) : k \in 1..Len(image_urls)}

\* the tokens uuid4() has produced so far in this request
GeneratedIds == {Uuid4(n) : n \in 1..n_uuid}

(***************************************************************************)
(* C11: every image extracted from the archive is written to the Blob      *)
(* Store under the basename of its archive path, no generated id; the      *)
(* original document is written under a freshly generated object name      *)
(* that differs from the caller's file name.                               *)
(***************************************************************************)
C11_ObjectNames ==
    /\ \A k \in 1..Len(image_urls) :
          /\ image_urls[k].url[4] = PathBasename(image_urls[k].path)
          /\ image_urls[k].url[4] \in DOMAIN store
          /\ \A t \in 1..Len(image_urls[k].url[4]) :
                image_urls[k].url[4][t] \notin GeneratedIds
    /\ minio_file_url # <<>> =>
          /\ minio_file_url[4] \in DOMAIN store
          /\ minio_file_url[4][1] \in GeneratedIds
          /\ minio_file_url[4] # file.filename
          /\ DOMAIN store = {minio_file_url[4]} \cup ImageObjectNames
    /\ Count("blob_put_image") >= Len(image_urls)

C11_Witness ==
    /\ pc = "done"
    /\ outcome.kind = "result"
    /\ Len(image_urls) = 2
    /\ Cardinality(DOMAIN store) = 3
    /\ file.filename = <<"d", ".", "p", "d", "f">>

\* the object names this request has written so far
WrittenByThisRequest ==
    (IF minio_file_url = <<>> THEN {} ELSE {minio_file_url[4]})
        \cup {image_urls[k].url[4] : k \in 1..Len(image_urls)}

(***************************************************************************)
(* C12: the object names two requests write are disjoint, so no request    *)
(* overwrites an object written by another.  Stated for a request that     *)
(* runs after another one has ended: it writes no name the earlier         *)
(* request wrote and leaves the earlier request's objects as they were.    *)
(***************************************************************************)
C12_DisjointObjectNames ==
    /\ WrittenByThisRequest \cap DOMAIN FirstRequestStore = {}
    /\ \A o \in DOMAIN FirstRequestStore : store[o] = FirstRequestStore[o]

\* a Blob Store write of an extracted image was issued and did not succeed
ImageWriteFailed == Count("blob_put_image") > Len(image_urls)

(***************************************************************************)
(* C13 (as stated): when the write of one extracted image fails, the       *)
(* remaining images of the archive are still relocated, so at the end of   *)
(* the request a write has been issued for every image entry.              *)
(***************************************************************************)
C13_RemainingImagesRelocated ==
    (pc = "done" /\ ImageWriteFailed)
        => Count("blob_put_image") = Len(C10_ImageEntries)

(***************************************************************************)
(* C13 (amended): when the write of one extracted image fails, the         *)
(* request ends at once with an HTTP 500 error: no write is issued for     *)
(* the images after it and no result is returned.                          *)
(***************************************************************************)
C13_FailureEndsRelocation ==
    ImageWriteFailed =>
        /\ pc = "done"
        /\ outcome = [kind |-> "error", status_code |-> 500, detail |-> "upload_failed"]
        /\ log[Len(log)] = "blob_put_image"
        /\ Count("blob_put_image") = Len(image_urls) + 1

C13_Witness ==
    /\ ImageWriteFailed
    /\ pc = "done"
    /\ Len(C10_ImageEntries) = 2
    /\ Count("blob_put_image") = 1

(***************************************************************************)
(* C14: on every outcome of the request (a result, or an error raised at   *)
(* any step once the temporary file has been created, a failure while      *)
(* writing the document bytes into it included), the temporary file no     *)
(* longer exists when the request ends.                                    *)
(***************************************************************************)
C14_TempFileRemoved == pc = "done" => temp_files = {}

\* the upload-slot response was received and is refused by the handler
SlotRefused ==
    /\ result.kind = "json"
    /\ (result.code # 0 \/ result.file_urls = <<>>)

(***************************************************************************)
(* C15: when the upload-slot response carries a non-zero status code or an *)
(* empty list of slot URLs, the request ends with an error: no PUT to a    *)
(* slot, no status query, no archive download and no extraction result.    *)
(***************************************************************************)
C15_SlotRefusedEndsRequest ==
    SlotRefused =>
        /\ pc = "done"
        /\ outcome = HTTPError("upload_failed")
        /\ Count("slot_put") = 0
        /\ Count("status_query") = 0
        /\ Count("zip_get") = 0
        /\ res_upload.kind = "none"

C15_Witness ==
    /\ result.kind = "json"
    /\ result.code = 0
    /\ result.file_urls = <<>>
    /\ pc = "done"

(***************************************************************************)
(* C16: the document bytes are transferred at most once per request and    *)
(* exactly once before any status query, to the first slot URL of the      *)
(* response; when the transfer does not report status 200 the request ends *)
(* with an error and no status query is issued.                            *)
(***************************************************************************)
C16_SingleTransfer ==
    /\ Count("slot_put") <= 1
    /\ (Count("slot_put") = 1) <=> (res_upload.kind = "put")
    /\ res_upload.kind = "put" =>
        /\ SlotCodeOk(result)
        /\ res_upload.url = result.file_urls[1]
        /\ res_upload.data = file.data
    /\ (res_upload.kind = "put" /\ res_upload.status # "status_200") =>
        /\ pc = "done"
        /\ outcome.kind = "error"
        /\ Count("status_query") = 0
    /\ Count("status_query") > 0 =>
        /\ Count("slot_put") = 1
        /\ res_upload.status = "status_200"
    /\ (pc = "done" /\ outcome.kind = "result") => Count("slot_put") = 1

C16_Witness ==
    /\ res_upload.kind = "put"
    /\ res_upload.status = "status_403"
    /\ result.file_urls = <<"slot-1", "slot-2">>
    /\ res_upload.url = "slot-1"
    /\ pc = "done"

\* the path of the archive entry contains the canonical content file name
NamesContentFile(entry) ==
    \E i \in 0..Len(entry.filename) :
        /\ i + Len(LAYOUT_JSON) <= Len(entry.filename)
        /\ \A k \in 1..Len(LAYOUT_JSON) : entry.filename[i + k] = LAYOUT_JSON[k]

\* the entries of the opened archive that name the content file, in enumeration order
ContentEntries == SelectSeq(zip_ref.filelist, NamesContentFile)

\* the document parsed from the first such entry; null when there is none
ParsedContent ==
    IF ContentEntries = <<>> THEN "None" ELSE JsonLoads(ContentEntries[1].data)

\* the last status response reports done and carries an archive reference
ReportedDoneWithArchive == Reported(result_data, "done") /\ HasArchiveRef(result_data)

(***************************************************************************)
(* C17: when k < max_retries non-terminal responses are followed by a      *)
(* response reporting done with an archive reference, no further status    *)
(* query is issued (k+1 in all), the archive is downloaded once, and the   *)
(* returned result has state done and the content parsed from the archive; *)
(* the request ends with an error instead only when the download, the      *)
(* parsing or the write of an image failed.                                *)
(***************************************************************************)
C17_DoneAfterWaiting ==
    ReportedDoneWithArchive =>
        /\ pc \in {"download", "upload_image", "done"}
        /\ Count("status_query") = attempt
        /\ attempt <= max_retries
        /\ Count("zip_get") = (IF pc = "download" THEN 0 ELSE 1)
        /\ (pc = "done" /\ outcome.kind = "result") =>
              /\ outcome.state = "done"
              /\ zip_ref.open
              /\ outcome.content_list = ParsedContent
              /\ outcome.content_list # "RAISE"
        /\ (pc = "done" /\ outcome.kind = "error") =>
              \/ ~zip_ref.open
              \/ ParsedContent = "RAISE"
              \/ ImageWriteFailed

C17_Witness ==
    /\ ReportedDoneWithArchive
    /\ pc = "done"
    /\ outcome.kind = "result"
    /\ Count("status_query") = 3
    /\ Count("zip_get") = 1
    /\ outcome.state = "done"
    /\ outcome.content_list = "tree-1"

\* the path a client requests for a URL whose last part is `name`: what precedes the
\* first "?" (query) or "#" (fragment)
UrlPath(name) ==
    LET cuts == {i \in 1..Len(name) : name[i] \in {"?", "#"}}
    IN  IF cuts = {} THEN name
        ELSE SubSeq(name, 1, (CHOOSE i \in cuts : \A j \in cuts : i <= j) - 1)

\* the bytes a GET of `url` obtains from the Blob Store holding `bucket`
ReadUrl(bucket, url) ==
    IF /\ Len(url) = 4
       /\ url[1] \in {"http", "https"}
       /\ url[2] = MINIO_ENDPOINT
       /\ url[3] = MINIO_BUCKET_NAME
       /\ UrlPath(url[4]) \in DOMAIN bucket
    THEN bucket[UrlPath(url[4])].data
    ELSE "NoSuchKey"

(***************************************************************************)
(* C18: right after a byte buffer has been relocated (the document, or an  *)
(* image of the archive), reading the Blob Store object addressed by the   *)
(* returned URL yields exactly the submitted bytes, and the URL is         *)
(* <scheme>://<endpoint>/<bucket>/<objectName> for the object written.     *)
(***************************************************************************)
C18_RoundTrip ==
    [][ /\ minio_file_url' # minio_file_url =>
            /\ minio_file_url'[4] \in DOMAIN store'
            /\ minio_file_url' = <<"http", MINIO_ENDPOINT, MINIO_BUCKET_NAME,
                                   minio_file_url'[4]>>
            /\ ReadUrl(store', minio_file_url') = file.data
        /\ Len(image_urls') > Len(image_urls) =>
            LET asset == image_urls'[Len(image_urls')]
            IN  /\ asset.url[4] \in DOMAIN store'
                /\ asset.url = <<"http", MINIO_ENDPOINT, MINIO_BUCKET_NAME, asset.url[4]>>
                /\ ReadUrl(store', asset.url) = zip_ref.filelist[file_idx].data
      ]_vars

C19_WitnessNoContent ==
    /\ pc = "done"
    /\ outcome.kind = "result"
    /\ zip_ref.open
    /\ ContentEntries = <<>>
    /\ Len(outcome.image_urls) = 2

\* the extension of a file name: from its last dot on, when a character other than a
\* dot precedes that dot; empty otherwise
ImageExtension(name) ==
    LET dots == {i \in 1..Len(name) : name[i] = "." /\ \E j \in 1..(i - 1) : name[j] # "."}
    IN  IF dots = {} THEN <<>>
        ELSE SubSeq(name, CHOOSE i \in dots : \A j \in dots : i >= j, Len(name))

\* `ext` is the table's extension `e`, letter case apart
SameExtension(ext, e) ==
    /\ Len(ext) = Len(e)
    /\ \A i \in 1..Len(e) : ext[i] = e[i] \/ LowerChar(ext[i]) = e[i]

\* the fixed table of the content types
TableType(name) ==
    LET ext == ImageExtension(name)
    IN  IF SameExtension(ext, DOT_JPG) \/ SameExtension(ext, DOT_JPEG) THEN "image/jpeg"
        ELSE IF SameExtension(ext, DOT_PNG) THEN "image/png"
        ELSE IF SameExtension(ext, DOT_GIF) THEN "image/gif"
        ELSE IF SameExtension(ext, DOT_BMP) THEN "image/bmp"
        ELSE IF SameExtension(ext, DOT_WEBP) THEN "image/webp"
        ELSE "application/octet-stream"

(***************************************************************************)
(* C20: an extracted image is written to the Blob Store with the content   *)
(* type the fixed table gives for its file extension (.jpg/.jpeg ->        *)
(* image/jpeg, .png -> image/png, .gif -> image/gif, .bmp -> image/bmp,    *)
(* .webp -> image/webp, letter case apart); any other or missing extension *)
(* gives application/octet-stream and the image is relocated all the same. *)
(***************************************************************************)
C20_ContentTypeByExtension ==
    /\ \A k \in 1..Len(image_urls) :
        /\ image_urls[k].url[4] \in DOMAIN store
        /\ store[image_urls[k].url[4]].content_type = TableType(image_urls[k].name)
    /\ (pc = "done" /\ zip_ref.open /\ ParsedContent # "RAISE" /\ ~ImageWriteFailed) =>
        /\ outcome.kind = "result"
        /\ Len(image_urls) = Len(C10_ImageEntries)

C20_Witness ==
    /\ pc = "done"
    /\ outcome.kind = "result"
    /\ Len(image_urls) = 2
    /\ image_urls[1].name = <<"c", ".", "t", "i", "f">>
    /\ store[image_urls[1].url[4]].content_type = "application/octet-stream"
    /\ image_urls[2].name = <<"c", ".", "P", "N", "G">>
    /\ store[image_urls[2].url[4]].content_type = "image/png"

\* this step is a status query answered with code 0 and no extraction entry
AnsweredWithoutEntry ==
    /\ attempt' = attempt + 1
    /\ result_data'.kind = "json"
    /\ result_data'.code = 0
    /\ result_data'.extract_result = <<>>

(***************************************************************************)
(* C21: a status response with zero extraction entries causes no state     *)
(* transition and no error: the job state and the error message stay what  *)
(* they were before that response, and polling goes on with the next       *)
(* attempt when one remains (after the last attempt the result is returned *)
(* with the state and message as they were).                               *)
(***************************************************************************)
C21_NoEntryNoTransition ==
    [][ AnsweredWithoutEntry =>
            /\ final_state' = final_state
            /\ final_err_msg' = final_err_msg
            /\ content_list' = content_list
            /\ image_urls' = image_urls
            /\ outcome'.kind # "error"
            /\ log' = Append(log, "status_query")
            /\ IF attempt' < max_retries
               THEN pc' = "poll" /\ outcome' = outcome
               ELSE /\ pc' = "done"
                    /\ outcome'.kind = "result"
                    /\ outcome'.state = final_state
                    /\ outcome'.err_msg = final_err_msg
      ]_vars

C21_Witness ==
    /\ pc = "poll"
    /\ attempt = 2
    /\ result_data.kind = "json"
    /\ result_data.code = 0
    /\ result_data.extract_result = <<>>
    /\ final_state = "running"
    /\ final_err_msg = "boom"

(***************************************************************************)
(* C22: a status response whose service status code is non-zero is not     *)
(* silently ignored by the poll loop: it leads to an error outcome for the *)
(* request instead of being treated as still-processing.                   *)
(***************************************************************************)
C22_StatusCodeRaised ==
    (result_data.kind = "json" /\ result_data.code # 0) =>
        (pc = "done" /\ outcome.kind = "error")

(***************************************************************************)
(* C23: apart from the bounded status-query loop no external action is     *)
(* repeated within a request, on any path, error paths included: at most   *)
(* one Blob Store write of the document, one upload-slot request, one PUT  *)
(* to a slot, one archive download, and one Blob Store write per image     *)
(* entry of the archive (the successful ones for successive entries, and   *)
(* at most one failed one, the last).                                      *)
(***************************************************************************)
C23_NoRepeatedAction ==
    /\ Count("blob_put_document") <= 1
    /\ Count("slot_request") <= 1
    /\ Count("slot_put") <= 1
    /\ Count("zip_get") <= 1
    /\ Count("blob_put_image") <= Len(C10_ImageEntries)
    /\ Count("blob_put_image") \in {Len(image_urls), Len(image_urls) + 1}
    /\ \A k \in 1..Len(image_urls) : image_urls[k].path = C10_ImageEntries[k].filename
    /\ Len(log) = Count("blob_put_document") + Count("slot_request") + Count("slot_put")
                    + Count("status_query") + Count("zip_get") + Count("blob_put_image")

C23_Witness ==
    /\ pc = "done"
    /\ outcome.kind = "error"
    /\ Count("blob_put_document") = 1
    /\ Count("slot_request") = 1
    /\ Count("slot_put") = 1
    /\ Count("status_query") = 2
    /\ Count("zip_get") = 1
    /\ Count("blob_put_image") = 2
    /\ Len(image_urls) = 1

(***************************************************************************)
(* C24: after a request has ended with state done, for every ImageAsset of *)
(* the result the Blob Store object at its url holds exactly the bytes of  *)
(* the archive entry at its archive path; this for every archive, one      *)
(* whose image entries lie in different sub-directories of the images      *)
(* directory and share a basename included.                                *)
(***************************************************************************)
C24_ImageBytesAtUrl ==
    (pc = "done" /\ outcome.kind = "result" /\ outcome.state = "done") =>
        \A k \in 1..Len(outcome.image_urls) :
            /\ outcome.image_urls[k].path = C10_ImageEntries[k].filename
            /\ outcome.image_urls[k].url[4] \in DOMAIN store
            /\ store[outcome.image_urls[k].url[4]].data = C10_ImageEntries[k].data

(***************************************************************************)
(* C25: after any sequence of connect(), close() and get_collection()      *)
(* calls, a collection returned by get_collection() belongs to a client    *)
(* that is open at that point, the manager's client being not None         *)
(* (get_collection() after close() reconnects before it returns), and      *)
(* connect() while connected creates no second client.                     *)
(***************************************************************************)
C25_CollectionOfOpenClient ==
    /\ (mongo_calls # <<>> /\ mongo_calls[Len(mongo_calls)] = "get_collection") =>
        /\ mongodb.client # 0
        /\ collection.client = mongodb.client
        /\ collection.client \in clients.open
    /\ Cardinality(clients.open) <= 1

====
